---- MODULE Spec2Model ----
(***************************************************************************)
(* Model of vix_alert.py: one run of main().  Credentials are read, the    *)
(* VIX close series is downloaded with retry, smoothed with an EWMA,       *)
(* classified against the smoothed value, and the alert is posted to       *)
(* Telegram with retry; any failure is reported by a second post.          *)
(*                                                                         *)
(* Floating-point numbers are modelled as exact rationals <<n, d>> with    *)
(* d > 0 in lowest terms; NaN is <<0, 0>>.                                 *)
(***************************************************************************)
EXTENDS Integers, Sequences, FiniteSets, TLC

\* Longest series a download returns in a run of main.
MaxLen == 2
\* Longest series compute_ewma is applied to on its own.
MaxEwmaLen == 3

RETRIES == 3
RETRY_DELAY == 5

-----------------------------------------------------------------------------
(* Rational arithmetic standing for Python floats *)

NaN == <<0, 0>>
IsNaN(x) == x[2] = 0

Abs(n) == IF n < 0 THEN -n ELSE n

RECURSIVE GCD(_, _)
GCD(a, b) == IF b = 0 THEN a ELSE GCD(b, a % b)

Norm(n, d) == LET g == GCD(Abs(n), d) IN <<n \div g, d \div g>>

Num(v) == <<v, 1>>
One == Num(1)

RAdd(x, y) ==
    LET g == GCD(x[2], y[2])
    IN  Norm(x[1] * (y[2] \div g) + y[1] * (x[2] \div g), (x[2] \div g) * y[2])

RSub(x, y) == RAdd(x, <<-y[1], y[2]>>)

RMul(x, y) ==
    LET g1 == GCD(Abs(x[1]), y[2])
        g2 == GCD(Abs(y[1]), x[2])
    IN  Norm((x[1] \div g1) * (y[1] \div g2), (x[2] \div g2) * (y[2] \div g1))

\* y is positive wherever this is used (a sum of weights)
RDiv(x, y) == RMul(x, <<y[2], y[1]>>)

\* Python's x > y on floats: False when either side is NaN
RGt(x, y) == ~IsNaN(x) /\ ~IsNaN(y) /\ x[1] * y[2] > y[1] * x[2]

-----------------------------------------------------------------------------
(* compute_ewma *)

DEFAULT_LAMBDA == <<97, 100>>

alpha_mut(lambda_) == lambda_
alpha(lambda_) == RSub(One, lambda_)

\* pandas' ewm(alpha, adjust=False, ignore_na=False).mean(): the running
\* state after the first i values.  weighted is the running mean, old_wt the
\* weight the running mean carries into the next observation.
RECURSIVE EwmState(_, _, _)
EwmState(vals, a, i) ==
    IF i = 1
    THEN [weighted |-> vals[1], old_wt |-> One, out |-> <<vals[1]>>]
    ELSE LET p    == EwmState(vals, a, i - 1)
             cur  == vals[i]
             old1 == RMul(p.old_wt, RSub(One, a))
             w    == IF IsNaN(p.weighted)
                     THEN cur
                     ELSE IF IsNaN(cur) \/ p.weighted = cur
                          THEN p.weighted
                          ELSE RDiv(RAdd(RMul(old1, p.weighted), RMul(a, cur)),
                                    RAdd(old1, a))
             ow   == IF IsNaN(p.weighted)
                     THEN p.old_wt
                     ELSE IF IsNaN(cur) THEN old1 ELSE One
         IN  [weighted |-> w, old_wt |-> ow, out |-> Append(p.out, w)]

ewm_mean(series, a) ==
    IF series = <<>> THEN <<>> ELSE EwmState(series, a, Len(series)).out

compute_ewma(series, lambda_) == ewm_mean(series, alpha(lambda_))

-----------------------------------------------------------------------------
(* join, dropna, classification, create_message *)

\* pd.concat([vix, vix_ewma], axis=1) with the two column names: one row per
\* index label of either series, in index order; name is the row's date.
concat(v, w) ==
    [i \in 1..(IF Len(v) > Len(w) THEN Len(v) ELSE Len(w)) |->
        [name     |-> i,
         VIX      |-> IF i <= Len(v) THEN v[i] ELSE NaN,
         VIX_EWMA |-> IF i <= Len(w) THEN w[i] ELSE NaN]]

RECURSIVE Filter(_, _)
Filter(rows, keep) ==
    IF rows = <<>> THEN <<>>
    ELSE IF keep[1]
         THEN <<rows[1]>> \o Filter(Tail(rows), Tail(keep))
         ELSE Filter(Tail(rows), Tail(keep))

dropna_mut(rows) == rows
dropna(rows) ==
    Filter(rows, [i \in 1..Len(rows) |->
                    ~IsNaN(rows[i].VIX) /\ ~IsNaN(rows[i].VIX_EWMA)])

iloc_last(rows) == rows[Len(rows)]

Above_mut(vix_val, ewma_val) ==
    IF RGt(vix_val, ewma_val) \/ vix_val = ewma_val THEN 1 ELSE 0
Above(vix_val, ewma_val) == IF RGt(vix_val, ewma_val) THEN 1 ELSE 0

ABOVE_PHRASE == "VIX ABOVE EWMA - Risk conditions elevated."
BELOW_PHRASE == "VIX BELOW EWMA - Favorable for short-vol trades (per Sinclair)."

\* format(x, ".2f"): <<whole, hundredths>>, rounding the exact value to the
\* nearest hundredth, ties to even; <<"nan">> for NaN.
Fmt2(x) ==
    IF IsNaN(x) THEN <<"nan">>
    ELSE LET whole == x[1] \div x[2]
             r100  == (x[1] % x[2]) * 100
             q     == r100 \div x[2]
             rem   == r100 % x[2]
             up    == 2 * rem > x[2] \/ (2 * rem = x[2] /\ q % 2 = 1)
             h     == IF up THEN q + 1 ELSE q
         IN  IF h = 100 THEN <<whole + 1, 0>> ELSE <<whole, h>>

\* The message as its sequence of lines.
create_message(date_str, vix_val, ewma_val, above) ==
    << <<"date", date_str>>,
       <<"VIX:", Fmt2(vix_val)>>,
       <<"EWMA(lambda=0.97):", Fmt2(ewma_val)>>,
       <<>>,
       <<IF above # 0 THEN ABOVE_PHRASE ELSE BELOW_PHRASE>> >>

FAILURE_PREFIX == "VIX alert failed:"
FailureText(err) == << <<FAILURE_PREFIX, err.msg>> >>
IsFailureText(t) == t # <<>> /\ t[1][1] = FAILURE_PREFIX

-----------------------------------------------------------------------------
(* Errors, responses of the two network collaborators, observed events *)

NoErr == [type |-> "", msg |-> "", at |-> <<"", 0>>]

\* at names the attempt that raised the exception object
Error(type, msg, fn, n) == [type |-> type, msg |-> msg, at |-> <<fn, n>>]

Vals == {NaN, Num(18), Num(20), Num(22)}
SeriesUpTo(k) == UNION {[1..n -> Vals] : n \in 1..k}
AllSeries == SeriesUpTo(MaxLen)

\* Decay parameters compute_ewma is applied with on its own
Lambdas == {<<97, 100>>, <<1, 2>>, <<1, 10>>}

\* What yf.download does: raise, or return a frame with some columns and rows
DownloadResults ==
    {[raised |-> TRUE, columns |-> {}, nrows |-> 0, Close |-> <<>>]}
    \cup {[raised |-> FALSE, columns |-> {"Close"}, nrows |-> Len(s), Close |-> s] :
              s \in AllSeries \cup {<<>>}}
    \cup {[raised |-> FALSE, columns |-> {"Open"}, nrows |-> 1, Close |-> <<>>]}

NoFrame == [raised |-> FALSE, columns |-> {}, nrows |-> 0, Close |-> <<>>]

df_empty(d) == d.nrows = 0 \/ d.columns = {}

\* lines 27-29: the exception the attempt ends with, NoErr when it returns
DownloadError(d, n) ==
    IF d.raised
    THEN Error("DownloadError", "download failed", "fetch_vix", n)
    ELSE IF df_empty(d) \/ "Close" \notin d.columns
         THEN Error("RuntimeError", "VIX data missing 'Close' or empty", "fetch_vix", n)
         ELSE NoErr

DownloadClass(d) ==
    IF d.raised THEN "raised"
    ELSE IF df_empty(d) THEN "empty"
    ELSE IF "Close" \notin d.columns THEN "no_close"
    ELSE "data"

\* What requests.post does: raise, or return a response with a status code
\* and a body that parses as JSON or does not
PostResults ==
    {[raised |-> TRUE, status_code |-> 0, json_ok |-> FALSE]}
    \cup {[raised |-> FALSE, status_code |-> s, json_ok |-> j] :
              s \in {200, 300, 500}, j \in BOOLEAN}

\* Response.raise_for_status: raises for 4xx and 5xx
raise_for_status(r) == 400 <= r.status_code /\ r.status_code < 600

\* lines 59-62
PostError(r, n) ==
    IF r.raised
    THEN Error("RequestException", "post failed", "send_telegram", n)
    ELSE IF raise_for_status(r)
         THEN Error("HTTPError", "bad status", "send_telegram", n)
         ELSE IF ~r.json_ok
              THEN Error("JSONDecodeError", "body is not JSON", "send_telegram", n)
              ELSE NoErr

Is2xx(r) == ~r.raised /\ 200 <= r.status_code /\ r.status_code < 300

PostClass(r) == IF Is2xx(r) THEN "2xx" ELSE "not2xx"

ShouldRetry_mut(n) == n < RETRIES - 1
ShouldRetry(n) == n < RETRIES

Backoff(n) == RETRY_DELAY * n

Truthy_mut(v) == v # "None"
Truthy(v) == v \notin {"None", ""}

MissingCredentials_mut(bot_token, chat_id) == ~Truthy(bot_token) /\ ~Truthy(chat_id)
MissingCredentials(bot_token, chat_id) == ~Truthy(bot_token) \/ ~Truthy(chat_id)

\* One observed step of the run.  op is call, download, post, sleep, return or
\* raise; n the attempt number (the seconds, for a sleep); msg tells an alert
\* from a failure message; resp is the class of the collaborator's response.
Ev(op, fn, n, ok, resp, msg, err) ==
    [op |-> op, fn |-> fn, n |-> n, ok |-> ok, resp |-> resp, msg |-> msg, err |-> err]

MsgKind(t) == IF t = <<>> THEN "" ELSE IF IsFailureText(t) THEN "failure" ELSE "alert"

-----------------------------------------------------------------------------
VARIABLES
    env,        \* TELEGRAM_BOT_TOKEN and TELEGRAM_CHAT_ID as os.getenv gives them
    pc,         \* where main is: main, fetch_vix, process, send_telegram, exit
    attempt,    \* loop variable of the active retry loop
    df,         \* fetch_vix: what yf.download returned last
    vix,        \* main: the close series
    lambda_,    \* compute_ewma: the decay parameter
    vix_ewma,   \* main: the smoothed series
    frame,      \* main: df after concat and dropna
    latest,     \* main: the last row of frame
    above,      \* main: the classification, 0 or 1
    message,    \* main: the alert text
    text,       \* send_telegram: the text being sent
    e,          \* main: the exception caught at line 99
    handling,   \* main is inside the except block of line 99
    exit_code,  \* <<>> while running, <<c>> once the process has exited
    uncaught,   \* the exception that left main, NoErr if none
    log         \* the network calls, sleeps, calls and returns so far

vars == <<env, pc, attempt, df, vix, lambda_, vix_ewma, frame, latest, above, message,
          text, e, handling, exit_code, uncaught, log>>

data == <<df, vix, lambda_, vix_ewma, frame, latest, above, message>>

NoRow == [name |-> 0, VIX |-> NaN, VIX_EWMA |-> NaN]

EnvValues == {"None", "", "set"}

Init ==
    /\ env \in [{"TELEGRAM_BOT_TOKEN", "TELEGRAM_CHAT_ID"} -> EnvValues]
    /\ pc = "main"
    /\ attempt = 0
    /\ df = NoFrame
    /\ vix = <<>>
    /\ lambda_ = DEFAULT_LAMBDA
    /\ vix_ewma = <<>>
    /\ frame = <<>>
    /\ latest = NoRow
    /\ above = 0
    /\ message = <<>>
    /\ text = <<>>
    /\ e = NoErr
    /\ handling = FALSE
    /\ exit_code = <<>>
    /\ uncaught = NoErr
    /\ log = <<>>

\* lines 99-102: the except block is entered with err and calls send_telegram
\* with the failure text; lg is the log up to the raise
except_Exception_mut(err, lg) ==
    /\ e' = err
    /\ handling' = TRUE
    /\ pc' = "exit"
    /\ exit_code' = <<1>>
    /\ log' = lg
    /\ UNCHANGED <<text, attempt, uncaught>>
except_Exception(err, lg) ==
    /\ e' = err
    /\ handling' = TRUE
    /\ text' = FailureText(err)
    /\ attempt' = 1
    /\ pc' = "send_telegram"
    /\ log' = Append(lg, Ev("call", "send_telegram", 0, TRUE, "", "failure", NoErr))
    /\ UNCHANGED <<exit_code, uncaught>>

\* lines 103-105: the failure notice returned (err = NoErr) or raised err; the
\* inner except swallows err and the process exits with 1
sys_exit_1_mut(err, lg) ==
    /\ pc' = "exit"
    /\ exit_code' = <<1>>
    /\ uncaught' = err
    /\ log' = lg
    /\ UNCHANGED <<e, handling, text, attempt>>
sys_exit_1(err, lg) ==
    /\ pc' = "exit"
    /\ exit_code' = <<1>>
    /\ uncaught' = NoErr
    /\ log' = lg
    /\ UNCHANGED <<e, handling, text, attempt>>

\* lines 72-79: read the credentials; exit 2 if one is missing, else call fetch_vix
main_credentials ==
    /\ pc = "main"
    /\ IF MissingCredentials(env["TELEGRAM_BOT_TOKEN"], env["TELEGRAM_CHAT_ID"])
       THEN /\ pc' = "exit"
            /\ exit_code' = <<2>>
            /\ UNCHANGED <<attempt, log>>
       ELSE /\ pc' = "fetch_vix"
            /\ attempt' = 1
            /\ log' = Append(log, Ev("call", "fetch_vix", 0, TRUE, "", "", NoErr))
            /\ UNCHANGED exit_code
    /\ UNCHANGED <<env, data, text, e, handling, uncaught>>

\* lines 24-37: one iteration of fetch_vix's loop
fetch_vix_attempt ==
    /\ pc = "fetch_vix"
    /\ attempt <= RETRIES
    /\ \E d \in DownloadResults :
          LET err == DownloadError(d, attempt)
              got == Append(log, Ev("download", "fetch_vix", attempt, err = NoErr,
                                    DownloadClass(d), "", NoErr))
          IN  /\ df' = d
              /\ IF err = NoErr
                 THEN /\ vix' = d.Close
                      /\ pc' = "process"
                      /\ log' = Append(got, Ev("return", "fetch_vix", attempt, TRUE, "", "", NoErr))
                      /\ UNCHANGED <<attempt, text, e, handling, exit_code, uncaught>>
                 ELSE /\ vix' = vix
                      /\ IF ShouldRetry(attempt)
                         THEN /\ log' = Append(got, Ev("sleep", "fetch_vix", Backoff(attempt),
                                                       TRUE, "", "", NoErr))
                              /\ attempt' = attempt + 1
                              /\ UNCHANGED <<pc, text, e, handling, exit_code, uncaught>>
                         ELSE except_Exception(err,
                                  Append(got, Ev("raise", "fetch_vix", attempt, FALSE, "", "", err)))
    /\ UNCHANGED <<env, lambda_, vix_ewma, frame, latest, above, message>>

\* lines 80-96: smooth, join, drop undefined rows, classify the last row,
\* build the message and call send_telegram with it
process ==
    /\ pc = "process"
    /\ LET ewma   == compute_ewma(vix, lambda_)
           joined == dropna(concat(vix, ewma))
       IN  /\ vix_ewma' = ewma
           /\ frame' = joined
           /\ IF joined = <<>>
              THEN /\ UNCHANGED <<latest, above, message>>
                   /\ LET err == Error("RuntimeError",
                                       "Resulting DataFrame empty after dropping NA", "main", 0)
                      IN  except_Exception(err, Append(log, Ev("raise", "main", 0, FALSE, "", "", err)))
              ELSE LET row == iloc_last(joined)
                       flag == Above(row.VIX, row.VIX_EWMA)
                       m == create_message(row.name, row.VIX, row.VIX_EWMA, flag)
                   IN  /\ latest' = row
                       /\ above' = flag
                       /\ message' = m
                       /\ text' = m
                       /\ attempt' = 1
                       /\ pc' = "send_telegram"
                       /\ log' = Append(log, Ev("call", "send_telegram", 0, TRUE, "", "alert", NoErr))
                       /\ UNCHANGED <<e, handling, exit_code, uncaught>>
    /\ UNCHANGED <<env, df, vix, lambda_>>

\* lines 57-68: one iteration of send_telegram's loop, and what main does
\* when the call returns (lines 97, 105) or raises (lines 99, 103)
send_telegram_attempt ==
    /\ pc = "send_telegram"
    /\ attempt <= RETRIES
    /\ \E r \in PostResults :
          LET err == PostError(r, attempt)
              got == Append(log, Ev("post", "send_telegram", attempt, err = NoErr,
                                    PostClass(r), MsgKind(text), NoErr))
          IN  IF err = NoErr
              THEN LET lg == Append(got, Ev("return", "send_telegram", attempt, TRUE, "",
                                            MsgKind(text), NoErr))
                   IN  IF handling
                       THEN sys_exit_1(NoErr, lg)
                       ELSE /\ pc' = "exit"
                            /\ exit_code' = <<0>>
                            /\ log' = lg
                            /\ UNCHANGED <<attempt, text, e, handling, uncaught>>
              ELSE IF ShouldRetry(attempt)
                   THEN /\ log' = Append(got, Ev("sleep", "send_telegram", Backoff(attempt),
                                                 TRUE, "", MsgKind(text), NoErr))
                        /\ attempt' = attempt + 1
                        /\ UNCHANGED <<pc, text, e, handling, exit_code, uncaught>>
                   ELSE LET lg == Append(got, Ev("raise", "send_telegram", attempt, FALSE, "",
                                                 MsgKind(text), err))
                        IN  IF handling
                            THEN sys_exit_1(err, lg)
                            ELSE except_Exception(err, lg)
    /\ UNCHANGED <<env, data>>

Next ==
    \/ main_credentials
    \/ fetch_vix_attempt
    \/ process
    \/ send_telegram_attempt

Spec == Init /\ [][Next]_vars

-----------------------------------------------------------------------------
(* compute_ewma applied on its own to a series and a decay parameter *)

InitEwma ==
    /\ env = [v \in {"TELEGRAM_BOT_TOKEN", "TELEGRAM_CHAT_ID"} |-> "set"]
    /\ pc = "compute_ewma"
    /\ attempt = 0
    /\ df = NoFrame
    /\ vix \in SeriesUpTo(MaxEwmaLen)
    /\ lambda_ \in Lambdas
    /\ vix_ewma = <<>>
    /\ frame = <<>>
    /\ latest = NoRow
    /\ above = 0
    /\ message = <<>>
    /\ text = <<>>
    /\ e = NoErr
    /\ handling = FALSE
    /\ exit_code = <<>>
    /\ uncaught = NoErr
    /\ log = <<>>

\* lines 40-42
compute_ewma_call ==
    /\ pc = "compute_ewma"
    /\ vix_ewma' = compute_ewma(vix, lambda_)
    /\ pc' = "returned"
    /\ UNCHANGED <<env, attempt, df, vix, lambda_, frame, latest, above, message,
                   text, e, handling, exit_code, uncaught, log>>

NextEwma == compute_ewma_call

EwmaSpec == InitEwma /\ [][NextEwma]_vars

-----------------------------------------------------------------------------
(* Reading the log *)

Events(op) == {i \in DOMAIN log : log[i].op = op}
Posts(kind) == {i \in Events("post") : log[i].msg = kind}
Accepted(kind) == {i \in Posts(kind) : log[i].resp = "2xx"}
SendCalls(kind) == {i \in Events("call") : log[i].fn = "send_telegram" /\ log[i].msg = kind}
Attempts == Events("download") \cup Events("post")
Last == log[Len(log)]

Unset(v) == v = "None" \/ v = ""
CredentialMissing == Unset(env["TELEGRAM_BOT_TOKEN"]) \/ Unset(env["TELEGRAM_CHAT_ID"])

\* the largest member of a non-empty set of integers
Max(S) == CHOOSE m \in S : \A x \in S : x <= m

-----------------------------------------------------------------------------
(* C1 *)

\* fetch, smoothing, join, formatting and the primary send all completed
\* without raising
CompletedCleanly ==
    /\ Events("raise") = {}
    /\ \E i \in Events("return") : log[i].fn = "fetch_vix"
    /\ \E i \in Events("return") : log[i].fn = "send_telegram" /\ log[i].msg = "alert"

\* C1: every run ends with exactly one exit code among 0, 1, 2: before the
\* exit the run is at a step that can be taken (a retry loop is within its
\* three attempts) and it takes boundedly many steps; the code is 2
\* iff a credential is unset or empty, 0 iff the credentials are present and
\* every stage up to the primary send completed without raising, 1 otherwise
\* (and then some stage did raise).
C1_ExitCode ==
    /\ (pc = "exit") <=> (Len(exit_code) = 1)
    /\ Len(exit_code) <= 1
    /\ pc \in {"main", "fetch_vix", "process", "send_telegram", "exit"}
    /\ pc \in {"fetch_vix", "send_telegram"} => attempt \in 1..3
    /\ Len(log) <= 7 * RETRIES
    /\ pc = "exit" =>
          /\ exit_code[1] \in {0, 1, 2}
          /\ (exit_code[1] = 2) <=> CredentialMissing
          /\ (exit_code[1] = 0) <=> (~CredentialMissing /\ CompletedCleanly)
          /\ (exit_code[1] = 1) <=> (~CredentialMissing /\ ~CompletedCleanly)
          /\ (exit_code[1] = 1) => Events("raise") # {}

\* a run that exits 0 after retries, with a token and a chat id set
C1_Witness ==
    /\ pc = "exit"
    /\ exit_code = <<0>>
    /\ Events("sleep") # {}

-----------------------------------------------------------------------------
(* C2 *)

\* C2: with a credential missing, the run does nothing but exit with 2: no
\* download, no post (alert or failure notice), no sleep, no call at all.
C2_MissingCredentials ==
    CredentialMissing =>
        /\ log = <<>>
        /\ text = <<>>
        /\ pc \in {"main", "exit"}
        /\ pc = "exit" => exit_code = <<2>>

\* the token is empty, the chat id is set, and the run has exited
C2_Witness ==
    /\ env["TELEGRAM_BOT_TOKEN"] = ""
    /\ env["TELEGRAM_CHAT_ID"] = "set"
    /\ pc = "exit"
    /\ exit_code = <<2>>

-----------------------------------------------------------------------------
(* C3 *)

\* the exception type an attempt with this response class ends with
TypeOfClass(ev) ==
    IF ev.op = "download"
    THEN IF ev.resp = "raised" THEN {"DownloadError"} ELSE {"RuntimeError"}
    ELSE IF ev.resp = "2xx" THEN {"JSONDecodeError"}
         ELSE {"RequestException", "HTTPError", "JSONDecodeError"}

\* C3: a call of fetch_vix or send_telegram that raises has made exactly 3
\* attempts, all failed, with a sleep of 5 s after the first and of 10 s after
\* the second and none after the third, and raises the third attempt's
\* exception; main catches that very exception.
C3_Exhaustion ==
    \A i \in Events("raise") :
        log[i].fn \in {"fetch_vix", "send_telegram"} =>
            /\ i >= 7
            /\ log[i - 6].op = "call" /\ log[i - 6].fn = log[i].fn
            /\ \A k \in {1, 2, 3} :
                  /\ log[i - 7 + 2 * k].op \in {"download", "post"}
                  /\ log[i - 7 + 2 * k].fn = log[i].fn
                  /\ log[i - 7 + 2 * k].n = k
                  /\ ~log[i - 7 + 2 * k].ok
            /\ log[i - 4].op = "sleep" /\ log[i - 4].n = 5
            /\ log[i - 2].op = "sleep" /\ log[i - 2].n = 10
            /\ log[i].err # NoErr
            /\ log[i].err.at = <<log[i].fn, 3>>
            /\ log[i].err.type \in TypeOfClass(log[i - 1])
            /\ Cardinality({j \in Events("sleep") : i - 6 < j /\ j < i}) = 2
            /\ (log[i].msg # "failure") => (handling /\ e = log[i].err)

\* fetch_vix raised and then the failure notice's send_telegram raised too
C3_Witness ==
    /\ \E i \in Events("raise") : log[i].fn = "fetch_vix"
    /\ \E i \in Events("raise") : log[i].fn = "send_telegram"

-----------------------------------------------------------------------------
(* C4 *)

FetchAlwaysEmpty ==
    /\ ~CredentialMissing
    /\ pc = "exit"
    /\ Cardinality(Events("download")) = RETRIES
    /\ \A i \in Events("download") : log[i].resp = "empty"

\* C4 as claimed: after a fetch that returned an empty series on every
\* attempt, exactly one HTTP POST carrying the failure message is issued,
\* no alert is posted and the exit code is 1.
C4_Original ==
    FetchAlwaysEmpty =>
        /\ e.at = <<"fetch_vix", 3>>
        /\ Cardinality(Posts("failure")) = 1
        /\ Posts("alert") = {}
        /\ exit_code = <<1>>

\* C4 amended: after a fetch that returned an empty series on every attempt,
\* the error reaches main, exactly one send_telegram call is made, with the
\* failure message; that call issues between one and three POSTs of the
\* failure message, stopping at the first that succeeds; no alert is called
\* for or posted and the exit code is 1.
C4_Amended ==
    FetchAlwaysEmpty =>
        /\ e.at = <<"fetch_vix", 3>>
        /\ e.type = "RuntimeError"
        /\ text = FailureText(e)
        /\ Cardinality(SendCalls("failure")) = 1
        /\ Cardinality(Posts("failure")) \in 1..3
        /\ \A i \in Posts("failure") : log[i].ok => i = Max(Posts("failure"))
        /\ (Cardinality(Posts("failure")) < 3) => log[Max(Posts("failure"))].ok
        /\ SendCalls("alert") = {}
        /\ Posts("alert") = {}
        /\ exit_code = <<1>>

\* the fetch was empty three times and the failure notice took three POSTs
C4_Witness ==
    /\ FetchAlwaysEmpty
    /\ Cardinality(Posts("failure")) = 3

-----------------------------------------------------------------------------
(* C5 *)

\* C5: once main is handling a failure and the run has ended, the exit code
\* is 1 whether the failure notice returned or raised, no exception has left
\* main, exactly one failure notice was called for, and nothing (no download,
\* no alert, no other call) follows it: the log ends with its return or raise.
C5_SecondarySwallowed ==
    (handling /\ pc = "exit") =>
        /\ exit_code = <<1>>
        /\ uncaught = NoErr
        /\ Cardinality(SendCalls("failure")) = 1
        /\ Last.op \in {"return", "raise"}
        /\ Last.fn = "send_telegram" /\ Last.msg = "failure"
        /\ \A i \in DOMAIN log :
              i > Max(SendCalls("failure")) =>
                  /\ log[i].fn = "send_telegram" /\ log[i].msg = "failure"
                  /\ log[i].op # "call"

\* the failure notice itself failed on all its attempts and the run ended
C5_Witness ==
    /\ handling
    /\ pc = "exit"
    /\ Last.op = "raise"
    /\ Last.msg = "failure"

-----------------------------------------------------------------------------
(* C6 *)

AllDefined(series) == \A i \in DOMAIN series : ~IsNaN(series[i])

\* C6: for a non-empty series with every value defined and a decay parameter
\* lambda, compute_ewma returns a series of the same length and index whose
\* first value is the input's first value and whose every later value is
\* a * input[i] + (1 - a) * output[i-1] with a = 1 - lambda; for
\* [20, 22, 18] and lambda = 0.97 it is [20, 20.06, 19.9982].
C6_Recurrence ==
    (pc = "returned" /\ AllDefined(vix)) =>
        LET a == RSub(One, lambda_)
        IN  /\ DOMAIN vix_ewma = DOMAIN vix
            /\ vix_ewma[1] = vix[1]
            /\ \A i \in 2..Len(vix) :
                  vix_ewma[i] = RAdd(RMul(a, vix[i]), RMul(RSub(One, a), vix_ewma[i - 1]))
            /\ (vix = <<Num(20), Num(22), Num(18)>> /\ lambda_ = <<97, 100>>) =>
                  vix_ewma = << <<20, 1>>, <<1003, 50>>, <<99991, 5000>> >>

\* compute_ewma has returned for the series and lambda of scenario A
C6_Witness ==
    /\ pc = "returned"
    /\ vix = <<Num(20), Num(22), Num(18)>>
    /\ lambda_ = <<97, 100>>
    /\ Len(vix_ewma) = 3

-----------------------------------------------------------------------------
(* C7 *)

PhraseCount(m, phrase) == Cardinality({i \in DOMAIN m : m[i] = <<phrase>>})

\* C7: the flag is 1 exactly when the latest raw value is strictly greater
\* than the latest smoothed value (equal values give 0), and the alert
\* message holds the ABOVE phrase once and the BELOW phrase never when the flag
\* is 1, the BELOW phrase once and the ABOVE phrase never when it is 0; the
\* message is the text the primary send is called with.
C7_Classification ==
    message # <<>> =>
        LET raw == latest.VIX
            smoothed == latest.VIX_EWMA
        IN  /\ above \in {0, 1}
            /\ (above = 1) <=> (raw[1] * smoothed[2] > smoothed[1] * raw[2])
            /\ raw = smoothed => above = 0
            /\ PhraseCount(message, ABOVE_PHRASE) = above
            /\ PhraseCount(message, BELOW_PHRASE) = 1 - above
            /\ ~handling => text = message

\* an alert was built for a latest row whose raw and smoothed values are equal
C7_Witness ==
    /\ message # <<>>
    /\ latest.VIX = latest.VIX_EWMA
    /\ PhraseCount(message, BELOW_PHRASE) = 1

-----------------------------------------------------------------------------
(* C9 *)

\* the dates at which both the raw and the smoothed value are defined
DefinedDates == {i \in DOMAIN vix : ~IsNaN(vix[i]) /\ ~IsNaN(vix_ewma[i])}

-----------------------------------------------------------------------------
(* C8 *)

\* an attempt that failed in the claim's sense: for a download an exception,
\* an empty response or a missing Close column; for a post an exception or a
\* status outside 2xx
ClaimedFailure(ev) ==
    IF ev.op = "download" THEN ev.resp \in {"raised", "empty", "no_close"}
    ELSE ev.resp = "not2xx"

\* C8: every failed attempt j < 3 is followed by a sleep of 5 * j seconds and
\* then by attempt j + 1; an attempt the call takes as its success is followed
\* by the call's return at once, with no sleep and no further attempt, and
\* fetch_vix returns the series of that attempt.
C8_Original ==
    /\ \A i \in Attempts :
          /\ (ClaimedFailure(log[i]) /\ log[i].n < 3) =>
                /\ i + 1 <= Len(log)
                /\ log[i + 1].op = "sleep"
                /\ log[i + 1].n = 5 * log[i].n
                /\ i + 2 <= Len(log) =>
                      /\ log[i + 2].op = log[i].op
                      /\ log[i + 2].n = log[i].n + 1
          /\ log[i].ok =>
                /\ i + 1 <= Len(log)
                /\ log[i + 1].op = "return"
                /\ log[i + 1].n = log[i].n
                /\ \A j \in Attempts : j > i => log[j].fn # log[i].fn
    /\ \A i \in Events("sleep") : i > 1 /\ ~log[i - 1].ok
    /\ (\E i \in Events("return") : log[i].fn = "fetch_vix") => vix = df.Close

-----------------------------------------------------------------------------
(* C10 *)

FetchOver(i) ==
    \E j \in 1..(i - 1) : log[j].fn = "fetch_vix" /\ log[j].op \in {"return", "raise"}

\* C10: no POST before the fetch has returned or exhausted its retries, no
\* download after a POST, at most 3 downloads, and the endpoint never accepts
\* (2xx) both an alert and a failure message, nor the alert more than once.
C10_Original ==
    /\ \A i \in Events("post") : FetchOver(i)
    /\ \A i \in Events("post") : \A j \in Events("download") : j < i
    /\ Cardinality(Events("download")) <= 3
    /\ ~(Accepted("alert") # {} /\ Accepted("failure") # {})
    /\ Cardinality(Accepted("alert")) <= 1

====
